---- MODULE Spec2Model ----
(***************************************************************************)
(* Model of main.py of Garuda: the reconciliation of the command-line      *)
(* namespace with the optional YAML file, the validation that follows and  *)
(* the mapping of the engine's outcome to the process exit status.         *)
(*                                                                         *)
(* Python values are tagged records [t, v]; Python strings are sequences   *)
(* of one-character strings so that urlparse can be computed on them.      *)
(***************************************************************************)
EXTENDS Integers, Sequences, FiniteSets, TLC

VARIABLES pc, args, path_exists, config_from_file, final_args,
          target_domain, engine_log, stdout, stderr, exit_code, steps

vars == <<pc, args, path_exists, config_from_file, final_args,
          target_domain, engine_log, stdout, stderr, exit_code, steps>>

(* ------------------------------ bounds -------------------------------- *)

\* at most this many options are given on the command line
MaxCliOpts == 3
\* at most this many keys are set in the configuration file
MaxFileKeys == 2
\* longest path/query suffix appended to the command-line target URL
MaxSuffixLen == 1

(* --------------------------- Python values ---------------------------- *)

None == [t |-> "NoneType", v |-> 0]
PyBool(b) == [t |-> "bool", v |-> b]
PyInt(n) == [t |-> "int", v |-> n]
PyStr(s) == [t |-> "str", v |-> s]
PyList(l) == [t |-> "list", v |-> l]
PyFalse == PyBool(FALSE)
PyTrue == PyBool(TRUE)

\* a key the YAML document does not contain (selection marker, not a value)
Absent == [t |-> "absent", v |-> 0]

\* Python's ==, on the value kinds that occur here
PyEq(a, b) == a.t = b.t /\ a.v = b.v

\* bool(x)
Truthy(x) ==
    CASE x.t = "NoneType" -> FALSE
      [] x.t = "bool" -> x.v
      [] x.t = "int" -> x.v # 0
      [] x.t = "str" -> Len(x.v) > 0
      [] x.t = "list" -> Len(x.v) > 0
      [] OTHER -> TRUE

\* "value is not None and value is not False" (identity with the singletons)
IsNone(x) == x.t = "NoneType"
IsFalse(x) == x.t = "bool" /\ x.v = FALSE

(* --------------------------- string literals -------------------------- *)

s_empty == << >>
s_http_flood == <<"h","t","t","p","-","f","l","o","o","d">>
s_slowloris == <<"s","l","o","w","l","o","r","i","s">>
s_mixed == <<"m","i","x","e","d">>
s_udp == <<"u","d","p">>
s_good_com == <<"g","o","o","d",".","c","o","m">>
s_evil_com == <<"e","v","i","l",".","c","o","m">>
s_config_yaml == <<"c","o","n","f","i","g",".","y","a","m","l">>
s_url_good == <<"h","t","t","p",":","/","/">> \o s_good_com
s_url_Good80 == <<"H","T","T","P",":","/","/","G","o","o","d",".","c","o","m",":","8","0">>
s_bare_good == s_good_com

MethodChoices == {s_http_flood, s_slowloris, s_mixed}

DefaultConnections == 100
DefaultDuration == 60

(* ------------------------ urlparse(...).hostname ---------------------- *)

UpperChars == <<"A","B","C","D","E","F","G","H","I","J","K","L","M",
                "N","O","P","Q","R","S","T","U","V","W","X","Y","Z">>
LowerChars == <<"a","b","c","d","e","f","g","h","i","j","k","l","m",
                "n","o","p","q","r","s","t","u","v","w","x","y","z">>
Digits == {"0","1","2","3","4","5","6","7","8","9"}
Range(s) == {s[i] : i \in 1..Len(s)}
scheme_chars == Range(UpperChars) \cup Range(LowerChars) \cup Digits \cup {"+", "-", "."}

LowerChar(c) ==
    IF c \in Range(UpperChars)
    THEN LowerChars[CHOOSE i \in 1..26 : UpperChars[i] = c]
    ELSE c
Lower(s) == [i \in 1..Len(s) |-> LowerChar(s[i])]

\* str.find for a set of characters: first position (1-based), 0 if none
IndexOf(s, C) ==
    IF \E i \in 1..Len(s) : s[i] \in C
    THEN CHOOSE i \in 1..Len(s) : s[i] \in C /\ \A j \in 1..(i-1) : s[j] \notin C
    ELSE 0
\* str.rfind
LastIndexOf(s, C) ==
    IF \E i \in 1..Len(s) : s[i] \in C
    THEN CHOOSE i \in 1..Len(s) : s[i] \in C /\ \A j \in (i+1)..Len(s) : s[j] \notin C
    ELSE 0

\* urlsplit: drop "<scheme>:" when the text before the first colon is a scheme
AfterScheme(url) ==
    LET i == IndexOf(url, {":"})
    IN IF i > 1 /\ \A j \in 1..(i-1) : url[j] \in scheme_chars
       THEN SubSeq(url, i+1, Len(url))
       ELSE url

\* urlsplit/_splitnetloc: the authority after "//", up to the first of / ? #
Netloc(url) ==
    LET rest == AfterScheme(url)
    IN IF Len(rest) >= 2 /\ rest[1] = "/" /\ rest[2] = "/"
       THEN LET r == SubSeq(rest, 3, Len(rest))
                d == IndexOf(r, {"/", "?", "#"})
            IN IF d = 0 THEN r ELSE SubSeq(r, 1, d-1)
       ELSE << >>

\* _NetlocResultMixinStr._hostinfo / .hostname (no bracketed IPv6 literals here)
Hostname(url) ==
    LET netloc == Netloc(url)
        at == LastIndexOf(netloc, {"@"})
        hostinfo == SubSeq(netloc, at+1, Len(netloc))
        colon == IndexOf(hostinfo, {":"})
        host == IF colon = 0 THEN hostinfo ELSE SubSeq(hostinfo, 1, colon-1)
    IN IF host = << >> THEN None ELSE PyStr(Lower(host))

\* urlparse raises for a truthy argument that is not a str (it calls .decode)
UrlparseRaises(x) == x.t # "str"

(* ------------------------------ inputs -------------------------------- *)

SuffixChars == {"/", "?", "@"}
\* path/query suffixes: empty, or starting with "/" or "?"
Suffixes ==
    {x \in UNION {[1..n -> SuffixChars] : n \in 0..MaxSuffixLen} :
        Len(x) > 0 => x[1] \in {"/", "?"}}

CliKeys == {"target", "method", "config", "attacks", "connections",
            "duration", "confirm_target", "stealth"}
FileKeys == {"target", "method", "attacks", "connections",
             "duration", "confirm_target", "stealth"}

\* what argparse stores for an option that is not on the command line:
\* None, and False for the store_true flag --stealth
CliDefault(k) == IF k = "stealth" THEN PyFalse ELSE None

\* values parse_args can store for each dest (choices and type=int enforced)
CliTarget == {None} \cup {PyStr(s_url_good \o x) : x \in Suffixes}
CliMethod == {None, PyStr(s_mixed), PyStr(s_http_flood)}
CliConfig == {None, PyStr(s_config_yaml)}
CliAttacks == {None, PyList(<<s_http_flood>>)}
CliConnections == {None, PyInt(0)}
CliDuration == {None, PyInt(30)}
CliConfirmTarget == {None, PyStr(s_good_com), PyStr(s_evil_com)}
CliStealth == {PyFalse, PyTrue}

\* values a YAML document can give each key (nothing validates them)
FileTarget == {Absent, PyStr(s_empty), PyStr(s_url_Good80), PyStr(s_bare_good), PyInt(5)}
FileMethod == {Absent, PyStr(s_slowloris), PyStr(s_mixed), PyStr(s_udp)}
FileAttacks == {Absent, PyList(<< >>), PyList(<<s_slowloris>>)}
FileConnections == {Absent, None, PyInt(200)}
FileDuration == {Absent, PyInt(0)}
FileConfirmTarget == {Absent, PyStr(s_empty), PyStr(s_good_com)}
FileStealth == {Absent, PyFalse, PyTrue}

NumGiven(ns) == Cardinality({k \in DOMAIN ns : ~PyEq(ns[k], CliDefault(k))})

\* the mapping yaml.safe_load returns: only the keys the document contains
AsMapping(sel) == [k \in {j \in DOMAIN sel : sel[j].t # "absent"} |-> sel[k]]

(* -------------------------- Namespace helpers ------------------------- *)

hasattr(ns, k) == k \in DOMAIN ns
getattr(ns, k, default) == IF k \in DOMAIN ns THEN ns[k] ELSE default
setattr(ns, k, val) == (k :> val) @@ ns

(* ------------------------------ messages ------------------------------ *)

MsgUsage == "usage: main.py: error: (argparse)"
MsgConfigNotFound == "[FATAL] File konfigurasi tidak ditemukan"
MsgRequired == "usage: main.py: error: argumen 'target' dan '-m/--method' wajib diisi"
MsgAttacks == "usage: main.py: error: argumen --attacks wajib diisi saat menggunakan metode 'mixed'"
MsgConfirm == "[ERROR] Nama domain pada --confirm-target tidak cocok dengan target"
MsgTraceback == "Traceback (most recent call last)"
MsgUnexpected == "[FATAL] Terjadi kesalahan yang tidak terduga"
MsgSuccess == "[SUCCESS] Sesi serangan telah selesai dengan normal."

(* ------------------------------- state -------------------------------- *)

Init ==
    /\ pc = "parse_args"
    /\ args = << >>
    /\ path_exists = FALSE
    /\ config_from_file = << >>
    /\ final_args = << >>
    /\ target_domain = None
    /\ engine_log = << >>
    /\ stdout = << >>
    /\ stderr = << >>
    /\ exit_code = -1
    /\ steps = << >>

\* sys.exit(code) after writing msg to stderr
Exit(msg, code) ==
    /\ stderr' = Append(stderr, msg)
    /\ exit_code' = code
    /\ pc' = "exit"

\* variant: parser.error exiting with status 1 like the other fatal errors
parser_error_status1(msg) == Exit(msg, 1)

\* parser.error(message): usage and message to stderr, exit status 2
parser_error(msg) == Exit(msg, 2)

\* line 73: parser.parse_args()
ParseArgs ==
    /\ pc = "parse_args"
    /\ steps' = Append(steps, "parse_args")
    /\ \/ /\ parser_error(MsgUsage)
          /\ UNCHANGED <<args, path_exists, config_from_file, final_args,
                         target_domain, engine_log, stdout>>
       \/ \E tg \in CliTarget, me \in CliMethod, cf \in CliConfig,
             at \in CliAttacks, cn \in CliConnections, du \in CliDuration,
             ct \in CliConfirmTarget, st \in CliStealth :
            LET ns == [target |-> tg, method |-> me, config |-> cf,
                       attacks |-> at, connections |-> cn, duration |-> du,
                       confirm_target |-> ct, stealth |-> st]
            IN /\ NumGiven(ns) <= MaxCliOpts
               /\ args' = ns
               /\ pc' = "load_config"
               /\ UNCHANGED <<path_exists, config_from_file, final_args,
                              target_domain, engine_log, stdout, stderr,
                              exit_code>>

\* lines 75-81: the optional configuration file
LoadConfig ==
    /\ pc = "load_config"
    /\ steps' = Append(steps, "load_config")
    /\ IF Truthy(args["config"])
       THEN \/ \* os.path.exists(args.config) is false
               /\ path_exists' = FALSE
               /\ Exit(MsgConfigNotFound, 1)
               /\ UNCHANGED config_from_file
            \/ \* yaml.safe_load(f) or {}
               \E tg \in FileTarget, me \in FileMethod, at \in FileAttacks,
                  cn \in FileConnections, du \in FileDuration,
                  ct \in FileConfirmTarget, st \in FileStealth :
                 LET doc == AsMapping([target |-> tg, method |-> me,
                               attacks |-> at, connections |-> cn,
                               duration |-> du, confirm_target |-> ct,
                               stealth |-> st])
                 IN /\ Cardinality(DOMAIN doc) <= MaxFileKeys
                    /\ path_exists' = TRUE
                    /\ config_from_file' = doc
                    /\ pc' = "merge_file"
                    /\ UNCHANGED <<stderr, exit_code>>
       ELSE /\ pc' = "merge_file"
            /\ UNCHANGED <<path_exists, config_from_file, stderr, exit_code>>
    /\ UNCHANGED <<args, final_args, target_domain, engine_log, stdout>>

\* lines 85-86: for key, value in config_from_file.items(): setattr(...)
CopyFile(ns, file) == [k \in DOMAIN file \cup DOMAIN ns |->
                          IF k \in DOMAIN file THEN file[k] ELSE ns[k]]

MergeFile ==
    /\ pc = "merge_file"
    /\ steps' = Append(steps, "merge_file")
    /\ final_args' = CopyFile(final_args, config_from_file)
    /\ pc' = "merge_cli"
    /\ UNCHANGED <<args, path_exists, config_from_file, target_domain,
                   engine_log, stdout, stderr, exit_code>>

\* variant: "if value:" (truthiness instead of the two identity tests)
Overrides_truthy(val) == Truthy(val)

\* variant: "if value is not None:" (the False test forgotten)
Overrides_notNone(val) == ~IsNone(val)

\* line 89: value is not None and value is not False
Overrides(val) == ~IsNone(val) /\ ~IsFalse(val)

\* lines 88-90: for key, value in vars(args).items(): if ...: setattr(...)
OverlayCli(ns, cli) ==
    LET over == {k \in DOMAIN cli : Overrides(cli[k])}
    IN [k \in over \cup DOMAIN ns |-> IF k \in over THEN cli[k] ELSE ns[k]]

MergeCli ==
    /\ pc = "merge_cli"
    /\ steps' = Append(steps, "merge_cli")
    /\ final_args' = OverlayCli(final_args, args)
    /\ pc' = "check_required"
    /\ UNCHANGED <<args, path_exists, config_from_file, target_domain,
                   engine_log, stdout, stderr, exit_code>>

\* variant: only the method is required
RequiredMissing_methodOnly(ns) == ~Truthy(getattr(ns, "method", None))

\* line 92
RequiredMissing(ns) ==
    \/ ~Truthy(getattr(ns, "target", None))
    \/ ~Truthy(getattr(ns, "method", None))

\* lines 92-93
CheckRequired ==
    /\ pc = "check_required"
    /\ steps' = Append(steps, "check_required")
    /\ IF RequiredMissing(final_args)
       THEN parser_error(MsgRequired)
       ELSE pc' = "check_mixed" /\ UNCHANGED <<stderr, exit_code>>
    /\ UNCHANGED <<args, path_exists, config_from_file, final_args,
                   target_domain, engine_log, stdout>>

\* variant: "not hasattr(final_args, 'attacks')" (an empty list passes)
MixedWithoutAttacks_hasattr(ns) ==
    /\ PyEq(ns["method"], PyStr(s_mixed))
    /\ ~hasattr(ns, "attacks")

\* line 95
MixedWithoutAttacks(ns) ==
    /\ PyEq(ns["method"], PyStr(s_mixed))
    /\ ~Truthy(getattr(ns, "attacks", None))

\* lines 95-96
CheckMixed ==
    /\ pc = "check_mixed"
    /\ steps' = Append(steps, "check_mixed")
    /\ IF MixedWithoutAttacks(final_args)
       THEN parser_error(MsgAttacks)
       ELSE pc' = "defaults" /\ UNCHANGED <<stderr, exit_code>>
    /\ UNCHANGED <<args, path_exists, config_from_file, final_args,
                   target_domain, engine_log, stdout>>

\* variant: "if not getattr(final_args, k, None)" (falsy values replaced)
SetDefault_falsy(ns, k, val) ==
    IF Truthy(getattr(ns, k, None)) THEN ns ELSE setattr(ns, k, val)

\* one line of 98-100: if not hasattr(final_args, k): final_args.k = val
SetDefault(ns, k, val) == IF hasattr(ns, k) THEN ns ELSE setattr(ns, k, val)

\* variant: the two numeric defaults exchanged
WithDefaults_swapped(ns) ==
    SetDefault(SetDefault(SetDefault(ns,
        "connections", PyInt(DefaultDuration)),
        "duration", PyInt(DefaultConnections)),
        "stealth", PyFalse)

\* lines 98-100
WithDefaults(ns) ==
    SetDefault(SetDefault(SetDefault(ns,
        "connections", PyInt(DefaultConnections)),
        "duration", PyInt(DefaultDuration)),
        "stealth", PyFalse)

ApplyDefaults ==
    /\ pc = "defaults"
    /\ steps' = Append(steps, "defaults")
    /\ final_args' = WithDefaults(final_args)
    /\ pc' = "confirm_target"
    /\ UNCHANGED <<args, path_exists, config_from_file, target_domain,
                   engine_log, stdout, stderr, exit_code>>

\* variant: == in place of !=
ConfirmMismatch_inverted(ns, domain) ==
    /\ Truthy(getattr(ns, "confirm_target", None))
    /\ PyEq(ns["confirm_target"], domain)

\* line 103
ConfirmMismatch(ns, domain) ==
    /\ Truthy(getattr(ns, "confirm_target", None))
    /\ ~PyEq(ns["confirm_target"], domain)

\* lines 102-105; an exception of urlparse is not caught: traceback, status 1
CheckConfirm ==
    /\ pc = "confirm_target"
    /\ steps' = Append(steps, "confirm_target")
    /\ IF UrlparseRaises(final_args["target"])
       THEN /\ Exit(MsgTraceback, 1)
            /\ UNCHANGED target_domain
       ELSE /\ target_domain' = Hostname(final_args["target"].v)
            /\ IF ConfirmMismatch(final_args, target_domain')
               THEN Exit(MsgConfirm, 1)
               ELSE pc' = "construct" /\ UNCHANGED <<stderr, exit_code>>
    /\ UNCHANGED <<args, path_exists, config_from_file, final_args,
                   engine_log, stdout>>

\* what a call into the engine can do, as seen from main()
EngineOutcomes == {"return", "KeyboardInterrupt", "Exception"}

\* variant: the interruption handled like any other exception
OnKeyboardInterrupt_reported ==
    /\ Exit(MsgUnexpected, 1)
    /\ UNCHANGED stdout

\* lines 111-112: except KeyboardInterrupt: pass; main returns, status 0
OnKeyboardInterrupt ==
    /\ exit_code' = 0
    /\ pc' = "exit"
    /\ UNCHANGED <<stdout, stderr>>

\* lines 113-115: except Exception as e: print [FATAL] ...; sys.exit(1)
OnException ==
    /\ Exit(MsgUnexpected, 1)
    /\ UNCHANGED stdout

\* line 108: engine = GarudaEngine(final_args)
Construct ==
    /\ pc = "construct"
    /\ steps' = Append(steps, "construct")
    /\ \E r \in EngineOutcomes :
         /\ engine_log' = Append(engine_log,
                              [call |-> "GarudaEngine", result |-> r])
         /\ CASE r = "return" ->
                pc' = "start" /\ UNCHANGED <<stdout, stderr, exit_code>>
           [] r = "KeyboardInterrupt" -> OnKeyboardInterrupt
           [] r = "Exception" -> OnException
    /\ UNCHANGED <<args, path_exists, config_from_file, final_args,
                   target_domain>>

\* lines 109-110: engine.start(); print("[SUCCESS] ...")
Start ==
    /\ pc = "start"
    /\ steps' = Append(steps, "start")
    /\ \E r \in EngineOutcomes :
         /\ engine_log' = Append(engine_log, [call |-> "start", result |-> r])
         /\ CASE r = "return" ->
                /\ stdout' = Append(stdout, MsgSuccess)
                /\ exit_code' = 0
                /\ pc' = "exit"
                /\ UNCHANGED stderr
           [] r = "KeyboardInterrupt" -> OnKeyboardInterrupt
           [] r = "Exception" -> OnException
    /\ UNCHANGED <<args, path_exists, config_from_file, final_args,
                   target_domain>>

Next ==
    \/ ParseArgs
    \/ LoadConfig
    \/ MergeFile
    \/ MergeCli
    \/ CheckRequired
    \/ CheckMixed
    \/ ApplyDefaults
    \/ CheckConfirm
    \/ Construct
    \/ Start

Spec == Init /\ [][Next]_vars

TypeOK ==
    /\ pc \in {"parse_args", "load_config", "merge_file", "merge_cli",
               "check_required", "check_mixed", "defaults", "confirm_target",
               "construct", "start", "exit"}
    /\ exit_code \in {-1, 0, 1, 2}
    /\ (pc = "exit") <=> (exit_code # -1)
    /\ path_exists \in BOOLEAN

(* ----------------------- vocabulary of the claims --------------------- *)

Exited == pc = "exit"
Ran(step) == \E i \in 1..Len(steps) : steps[i] = step
Merged == Ran("merge_cli")
EngineInvoked == Len(engine_log) > 0
LastCall == engine_log[Len(engine_log)]

\* the command line gives k a value that is neither None nor False
SuppliedOnCli(k) ==
    /\ k \in DOMAIN args
    /\ args[k].t # "NoneType"
    /\ ~(args[k].t = "bool" /\ args[k].v = FALSE)
SetInFile(k) == k \in DOMAIN config_from_file

\* the value the two sources give k under the precedence rule (None if neither)
Expected(k) ==
    IF SuppliedOnCli(k) THEN args[k]
    ELSE IF SetInFile(k) THEN config_from_file[k]
    ELSE None

Resolved(k) == getattr(final_args, k, None)

DefaultOf(k) ==
    CASE k = "connections" -> PyInt(100)
      [] k = "duration" -> PyInt(60)
      [] k = "stealth" -> PyFalse
DefaultKeys == {"connections", "duration", "stealth"}

(* ------------------------------- claims ------------------------------- *)

\* C1: once the merge has run, and so in the configuration handed to the
\* engine, every field that the file sets and the command line supplies with
\* a value that is neither None nor False (0 included) holds the command-line
\* value.
C1_CliPrecedence ==
    Merged =>
      \A k \in CliKeys :
        (SuppliedOnCli(k) /\ SetInFile(k)) =>
          (hasattr(final_args, k) /\ PyEq(final_args[k], args[k]))

\* C1 witness: the engine was called with connections 0 from the command line
\* although the file sets another value.
C1_Witness ==
    /\ EngineInvoked
    /\ SetInFile("connections")
    /\ ~PyEq(config_from_file["connections"], PyInt(0))
    /\ PyEq(args["connections"], PyInt(0))
    /\ PyEq(Resolved("connections"), PyInt(0))

\* C2: a command-line value of False never replaces a value the file sets; in
\* particular stealth: true in the file survives an absent --stealth.
C2_FalseNeverOverrides ==
    Merged =>
      \A k \in CliKeys :
        (k \in DOMAIN args /\ IsFalse(args[k]) /\ SetInFile(k)) =>
          (hasattr(final_args, k) /\ PyEq(final_args[k], config_from_file[k]))

\* C2 witness: file stealth true, no --stealth, engine called with stealth true.
C2_Witness ==
    /\ EngineInvoked
    /\ SetInFile("stealth")
    /\ PyEq(config_from_file["stealth"], PyTrue)
    /\ PyEq(args["stealth"], PyFalse)
    /\ PyEq(Resolved("stealth"), PyTrue)

\* C3: whenever the engine is reached, each of connections, duration and
\* stealth that neither source sets holds its built-in default.
C3_Defaults ==
    EngineInvoked =>
      \A k \in DefaultKeys :
        (~SuppliedOnCli(k) /\ ~SetInFile(k)) => PyEq(Resolved(k), DefaultOf(k))

\* C3 witness: the engine was called and none of the three fields was set.
C3_Witness ==
    /\ EngineInvoked
    /\ \A k \in DefaultKeys : ~SuppliedOnCli(k) /\ ~SetInFile(k)
    /\ PyEq(Resolved("connections"), PyInt(100))
    /\ PyEq(Resolved("duration"), PyInt(60))
    /\ PyEq(Resolved("stealth"), PyFalse)

\* the merged result has method = mixed and no (or an empty) attacks list
MergedMixedNoAttacks ==
    /\ Merged
    /\ PyEq(Resolved("method"), PyStr(s_mixed))
    /\ ~Truthy(Resolved("attacks"))

\* C4 as stated: every run whose merged result has method = mixed and an
\* empty or absent attacks list, a missing target included, ends in
\* InvalidAttackCombination and never calls the engine.
C4_Original ==
    MergedMixedNoAttacks =>
      /\ ~EngineInvoked
      /\ Exited => stderr = <<MsgAttacks>>

\* C4 amended: such a run never calls the engine; it ends in
\* InvalidAttackCombination when the merged target is present and non-empty,
\* and in MissingRequiredArgument when it is not. Both exit through
\* parser.error.
C4_MixedNeedsAttacks ==
    MergedMixedNoAttacks =>
      /\ ~EngineInvoked
      /\ pc \in {"check_required", "check_mixed", "exit"}
      /\ Exited =>
           stderr = <<IF Truthy(Resolved("target")) THEN MsgAttacks
                      ELSE MsgRequired>>

\* C4 witness: a run with a target, method mixed and no attacks has ended in
\* InvalidAttackCombination.
C4_Witness ==
    /\ Exited
    /\ MergedMixedNoAttacks
    /\ Truthy(Resolved("target"))
    /\ stderr = <<MsgAttacks>>

\* the merged configuration passes the required-field and mixed/attacks rules
\* and its target is a string, so that a hostname is parsed from it
PassesRules ==
    /\ Merged
    /\ Truthy(Resolved("target"))
    /\ Truthy(Resolved("method"))
    /\ ~(PyEq(Resolved("method"), PyStr(s_mixed)) /\ ~Truthy(Resolved("attacks")))
    /\ Resolved("target").t = "str"

ConfirmDiffers ==
    ~PyEq(Resolved("confirm_target"), Hostname(Resolved("target").v))

StartsWith(s, prefix) ==
    Len(s) >= Len(prefix) /\ SubSeq(s, 1, Len(prefix)) = prefix

\* target is http://good.com followed by nothing, a path or a query
GoodComUrl(x) ==
    /\ x.t = "str"
    /\ StartsWith(x.v, s_url_good)
    /\ Len(x.v) > Len(s_url_good) => x.v[Len(s_url_good) + 1] \in {"/", "?"}

C7_Interruption ==
    (Exited /\ EngineInvoked) =>
      /\ LastCall.result = "KeyboardInterrupt" =>
           (exit_code = 0 /\ stderr = << >> /\ stdout = << >>)
      /\ LastCall.result = "Exception" =>
           (exit_code = 1 /\ stderr = <<MsgUnexpected>> /\ stdout = << >>)
      /\ LastCall.result = "return" =>
           (exit_code = 0 /\ stderr = << >> /\ stdout = <<MsgSuccess>>)

\* C7 witness: start() was interrupted and the process ended with status 0.
C7_Witness ==
    /\ Exited
    /\ Len(engine_log) = 2
    /\ LastCall = [call |-> "start", result |-> "KeyboardInterrupt"]
    /\ exit_code = 0

\* C8 as stated: whenever the engine is called, target is present and
\* non-empty and method is one of http-flood, slowloris, mixed, whichever
\* source supplied them.
C8_Claim ==
    EngineInvoked =>
      /\ Truthy(Resolved("target"))
      /\ Resolved("method").t = "str"
      /\ Resolved("method").v \in MethodChoices

\* the four fatal conditions, as functions of the inputs
V1_ConfigMissing == Truthy(args["config"]) /\ ~path_exists
V2_RequiredMissing ==
    ~Truthy(Expected("target")) \/ ~Truthy(Expected("method"))
V3_MixedNoAttacks ==
    PyEq(Expected("method"), PyStr(s_mixed)) /\ ~Truthy(Expected("attacks"))
V4_ConfirmMismatch ==
    /\ Truthy(Expected("confirm_target"))
    /\ Expected("target").t = "str"
    /\ ~PyEq(Expected("confirm_target"), Hostname(Expected("target").v))

StepOrder ==
    <<"parse_args", "load_config", "merge_file", "merge_cli",
      "check_required", "check_mixed", "defaults", "confirm_target",
      "construct", "start">>

\* C9: the steps run in one fixed order; the run ends at the first violated
\* one of (1) config file missing, (2) required field missing, (3) mixed
\* without attacks, (4) confirm-target mismatch, reports that one, and no
\* later check, merge step or engine call runs after it.
C9_ErrorPrecedence ==
    /\ steps = SubSeq(StepOrder, 1, Len(steps))
    /\ Ran("load_config") =>
         /\ (Ran("merge_file") \/ EngineInvoked) => ~V1_ConfigMissing
         /\ Ran("check_mixed") => ~V2_RequiredMissing
         /\ Ran("defaults") => ~V3_MixedNoAttacks
         /\ EngineInvoked => ~V4_ConfirmMismatch
         /\ Exited =>
              /\ V1_ConfigMissing =>
                   (stderr = <<MsgConfigNotFound>> /\ final_args = << >>)
              /\ (~V1_ConfigMissing /\ V2_RequiredMissing) =>
                   stderr = <<MsgRequired>>
              /\ (~V1_ConfigMissing /\ ~V2_RequiredMissing /\ V3_MixedNoAttacks) =>
                   stderr = <<MsgAttacks>>
              /\ (~V1_ConfigMissing /\ ~V2_RequiredMissing /\ ~V3_MixedNoAttacks
                    /\ V4_ConfirmMismatch) =>
                   stderr = <<MsgConfirm>>

\* C9 witness: an input that violates (2), (3) and (4) was reported as (2).
C9_Witness ==
    /\ Exited
    /\ Merged
    /\ V2_RequiredMissing
    /\ V3_MixedNoAttacks
    /\ V4_ConfirmMismatch
    /\ stderr = <<MsgRequired>>

\* C10: every key the file sets and the command line does not override keeps
\* exactly the file's value (false, 0 and null included) from the merge on;
\* after the defaults step a field holds a value of one of the two sources,
\* or, set by neither, its built-in default.
C10_FileAuthoritative ==
    Merged =>
      /\ \A k \in FileKeys :
           (SetInFile(k) /\ ~SuppliedOnCli(k)) =>
             (hasattr(final_args, k) /\ PyEq(final_args[k], config_from_file[k]))
      /\ \A k \in DOMAIN final_args :
           (~SetInFile(k) /\ ~SuppliedOnCli(k)) =>
             (Ran("defaults") /\ k \in DefaultKeys
                /\ PyEq(final_args[k], DefaultOf(k)))

\* C10 witness: the engine was called with connections: null from the file.
C10_Witness ==
    /\ EngineInvoked
    /\ SetInFile("connections")
    /\ IsNone(config_from_file["connections"])
    /\ ~SuppliedOnCli("connections")
    /\ hasattr(final_args, "connections")
    /\ IsNone(final_args["connections"])

====
